---- MODULE Spec2Model ----
(***************************************************************************)
(* Model of the autopay batch runner of the storage-rental backend         *)
(* (src/server.js, runAutopayForDate and the two routes that call it).     *)
(*                                                                         *)
(* The persistent store (supabase) and the payment gateway (square) are    *)
(* external collaborators.  A store call resolves to {data, error}: it     *)
(* either takes effect and returns no error, or has no effect and returns  *)
(* an error (the runner never asks the client to throw).  A gateway charge *)
(* either resolves with a payment or rejects with a reason.                *)
(*                                                                         *)
(* One action is one stretch of the async function between two awaits.     *)
(***************************************************************************)
EXTENDS Integers, Sequences, FiniteSets, TLC

\* ------------------------------------------------------------------ bounds
NumLeases == 2        \* lease rows in the store
NumRuns == 2          \* invocations of runAutopayForDate in one behaviour
MaxStoreErrs == 1     \* store writes that may be rejected in one behaviour
NumUnits == 2         \* rows of table units
MaxRequests == 3      \* requests to the CRUD routes in one behaviour

LeaseIds == 1..NumLeases
Runs == 1..NumRuns

\* ------------------------------------------------------------- null values
NoDate == [y |-> 0, m |-> 0, d |-> 0]   \* null / undefined date
NoCard == "null"                        \* square_card_id IS NULL
NoText == "none"                        \* absent string field
NoId == 0                               \* absent payment id

\* ---------------------------------------------------------- calendar dates
\* An ISO date string 'YYYY-MM-DD' is the record [y, m, d], m in 1..12.
MkDate(y, m, d) == [y |-> y, m |-> m, d |-> d]

IsLeap(y) == (y % 4 = 0 /\ y % 100 # 0) \/ (y % 400 = 0)

DaysInMonth(y, m) ==
    IF m = 2 THEN (IF IsLeap(y) THEN 29 ELSE 28)
    ELSE IF m \in {4, 6, 9, 11} THEN 30 ELSE 31

\* Date.UTC(y, mon0, day) read back with the getUTC* getters: mon0 is the
\* zero-based month and may be 12 (rolls into the next year); day may be 0
\* (rolls back to the last day of the previous month).
DateUTC(y, mon0, day) ==
    LET yy == y + (mon0 \div 12)
        mm == (mon0 % 12) + 1
    IN  IF day >= 1 THEN MkDate(yy, mm, day)
        ELSE IF mm = 1 THEN MkDate(yy - 1, 12, 31)
        ELSE MkDate(yy, mm - 1, DaysInMonth(yy, mm - 1))

\* getUTCMonth(): zero-based month of a date parsed at UTC midnight.
getUTCMonth(date) == date.m - 1

\* (mutation of nextMonthFirst: Date.UTC(y, m, 1), the month not advanced)
nextMonthFirstSameMonth(iso) == DateUTC(iso.y, getUTCMonth(iso), 1)

\* nextMonthFirst(iso), for a non-null iso.
nextMonthFirst(iso) == DateUTC(iso.y, getUTCMonth(iso) + 1, 1)

\* (mutation of nextFirst: a start on the 1st is taken to be its own anchor)
nextFirstKeepsFirst(startDateISO) ==
    IF startDateISO.d = 1 THEN startDateISO
    ELSE DateUTC(startDateISO.y, getUTCMonth(startDateISO) + 1, 1)

\* nextFirst(startDateISO): the string is parsed with a trailing 'Z', at UTC
\* midnight; both branches return Date.UTC(y, m + 1, 1).
nextFirst(startDateISO) ==
    IF startDateISO.d = 1
    THEN DateUTC(startDateISO.y, getUTCMonth(startDateISO) + 1, 1)
    ELSE DateUTC(startDateISO.y, getUTCMonth(startDateISO) + 1, 1)

\* Offsets of the process's local time from UTC, in hours: America/Menominee
\* in winter, UTC, and a zone east of Greenwich.
TzOffsets == {0 - 6, 0, 9}

\* new Date(iso + 'T00:00:00') read back with the getUTC* getters.  Without a
\* trailing 'Z' the string is local time: local midnight is the instant off
\* hours before UTC midnight, which east of Greenwich lies on the day before.
ParseLocalMidnight(iso, off) ==
    IF off > 0 THEN DateUTC(iso.y, getUTCMonth(iso), iso.d - 1) ELSE iso

\* (mutation of MathRound: the quotient is cut and one is added)
MathRoundPlusOne(n, d) == (n \div d) + 1

\* Math.round(n / d) for n >= 0, d > 0: the integer nearest to the quotient,
\* a tie going up (floor(x + 1/2)).
MathRound(n, d) == (2 * n + d) \div (2 * d)

\* prorateCents(startDateISO, monthlyCents) in a process at UTC offset off.
prorateCents(off, startDateISO, monthlyCents) ==
    LET start == ParseLocalMidnight(startDateISO, off)
        y == start.y
        m == getUTCMonth(start)
        daysInMonth == DateUTC(y, m + 1, 0).d
        startDay == start.d
        remainingDays == daysInMonth - startDay + 1
    IN  IF startDay <= 1 THEN monthlyCents
        ELSE MathRound(monthlyCents * remainingDays, daysInMonth)

\* The default and the ceiling of ?limit= in GET /api/payments.
DefaultLimit == 100
MaxLimit == 500

\* Number(req.query.limit): a query value is absent, or a string that is not
\* a number (both NaN), or the decimal text of an integer n.
NumberOf(q) == IF q.kind = "int" THEN [nan |-> FALSE, n |-> q.n]
               ELSE [nan |-> TRUE, n |-> 0]

\* (mutation of EffectiveLimit: the floor of 1 is not applied)
EffectiveLimitNoFloor(q) ==
    LET v == NumberOf(q)
        n == IF v.nan \/ v.n = 0 THEN DefaultLimit ELSE v.n
    IN  IF n < MaxLimit THEN n ELSE MaxLimit

\* Math.max(1, Math.min(500, Number(req.query.limit) || 100)): NaN and 0 are
\* falsy and give way to the default.
EffectiveLimit(q) ==
    LET v == NumberOf(q)
        n == IF v.nan \/ v.n = 0 THEN DefaultLimit ELSE v.n
        lo == IF n < MaxLimit THEN n ELSE MaxLimit
    IN  IF lo > 1 THEN lo ELSE 1

\* --------------------------------------------------------------- inputs
D1 == MkDate(2025, 12, 1)
D2 == MkDate(2026, 1, 1)
RunDates == {D1, D2}                    \* ?date= of the two runner routes

Reasons == {"CARD_DECLINED", "INSUFFICIENT_FUNDS"}   \* gateway error details
FetchErrMsg == "fetch failed"                     \* fetchErr.message
NotConfiguredMsg == "Backend not fully configured"

\* Lease rows the store may hold at start: due on a run date and eligible,
\* or due on D1 but with autopay off, or without a saved card, or neither.
LeaseRow(id, autopay, card, due) ==
    [id |-> id, unit_id |-> id, tenant_id |-> id, start_date |-> NoDate,
     rent_cents |-> 1000 * id, status |-> "active", billing_anchor_day |-> 1,
     square_card_id |-> card, next_due_date |-> due, autopay |-> autopay]

InitLeaseRows(id) ==
    { LeaseRow(id, TRUE, "ccof:card", D1),
      LeaseRow(id, TRUE, "ccof:card", D2),
      LeaseRow(id, FALSE, "ccof:card", D1),
      LeaseRow(id, TRUE, NoCard, D1) }

VARIABLES
    supabase,    \* TRUE iff the store client was created (process-wide)
    square,      \* TRUE iff the gateway client was created (process-wide)
    leases,      \* table leases: id -> row
    payments,    \* table payments: sequence of rows, in insertion order
    charges,     \* createPayment requests the gateway has received
    uuidCtr,     \* number of uuid() keys drawn so far
    storeLog,    \* store calls the runner has issued, and whether they took
    pc,          \* per run: where the invocation stands
    today,       \* per run: the as-of date
    due,         \* per run: the rows returned by the selection
    idx,         \* per run: position of the loop in due
    pay,         \* per run: payment id of the charge just made
    msg,         \* per run: message of the error just caught
    results,     \* per run: the results array
    out,         \* per run: the value returned
    leases0,     \* per run: table leases when the run started
    payments0,   \* per run: length of table payments when the run started
    tz,          \* hours the process's local time is ahead of UTC (TZ)
    units,       \* table units: id -> row
    post,        \* the POST /api/leases request in progress, if any
    resp,        \* the last response of GET /api/leases/preview
    last,        \* the request the CRUD routes answered last (for a preview,
                 \* with its query)
    nreq,        \* number of requests the CRUD routes have taken
    fn           \* arguments of the pure helpers, and the results returned

\* What the autopay runner neither reads nor writes.
apiVars == <<tz, units, post, resp, last, nreq, fn>>

vars == <<supabase, square, leases, payments, charges, uuidCtr, storeLog,
          pc, today, due, idx, pay, msg, results, out, leases0, payments0,
          tz, units, post, resp, last, nreq, fn>>

NoOut == [kind |-> "none", error |-> NoText, date |-> NoDate, count |-> 0,
          results |-> <<>>]

\* No POST /api/leases in progress; no preview answered yet.
NoPost == [pc |-> "none", unit_id |-> 0, lease_id |-> 0, status |-> 0]
NoResp == [status |-> 0, error |-> NoText, amount_cents |-> 0,
           next_due_date |-> NoDate, monthly_cents |-> 0, billing_anchor_day |-> 0]

\* No invocation of the runner has started and nothing was ever charged.
RunnerIdle ==
    /\ payments = <<>>
    /\ charges = <<>>
    /\ uuidCtr = 0
    /\ storeLog = <<>>
    /\ pc = [r \in Runs |-> "idle"]
    /\ today = [r \in Runs |-> NoDate]
    /\ due = [r \in Runs |-> <<>>]
    /\ idx = [r \in Runs |-> 0]
    /\ pay = [r \in Runs |-> NoId]
    /\ msg = [r \in Runs |-> NoText]
    /\ results = [r \in Runs |-> <<>>]
    /\ out = [r \in Runs |-> NoOut]
    /\ leases0 = [r \in Runs |-> leases]
    /\ payments0 = [r \in Runs |-> 0]

NoRequest == [op |-> "none", n |-> 0, status |-> 0, unit_id |-> 0,
              start_date |-> NoDate]

\* No helper applied yet.
NoFn == [date |-> NoDate, cents |-> 0, query |-> [kind |-> "absent", n |-> 0],
         done |-> {}, prorated |-> 0, nextFirst |-> NoDate,
         nextMonthFirst |-> NoDate, limit |-> 0]

\* No request has reached the CRUD routes.
ApiIdle ==
    /\ post = NoPost
    /\ resp = NoResp
    /\ last = NoRequest
    /\ nreq = 0

Init ==
    /\ supabase \in BOOLEAN
    /\ square \in BOOLEAN
    /\ leases \in { f \in [LeaseIds -> UNION { InitLeaseRows(i) : i \in LeaseIds }] :
                      \A i \in LeaseIds : f[i] \in InitLeaseRows(i) }
    /\ RunnerIdle
    /\ tz = 0
    /\ units = <<>>
    /\ ApiIdle
    /\ fn = NoFn

\* ------------------------------------------------------- collaborators
\* (mutation of StoreOutcomes: a store client that throws on failure)
StoreOutcomesThrowing == {"ok", "err", "throw"}

\* What an awaited store write can resolve to: applied, or rejected with the
\* error returned in {error}.  None of the runner's store calls is built with
\* throwOnError(), so none of them rejects the awaited promise.
StoreOutcomes == {"ok", "err"}

\* Store writes rejected so far.
storeErrs ==
    Cardinality({ i \in 1..Len(storeLog) :
                    storeLog[i].op # "select" /\ ~storeLog[i].ok })

\* Outcomes a store write may still have, given the rejections used up.
WriteOutcomes == IF storeErrs < MaxStoreErrs THEN StoreOutcomes ELSE {"ok"}

\* A call issued by run r about lease id (0: the selection), and whether the
\* store answered without error.
StoreCall(r, id, op, o) == [run |-> r, lease_id |-> id, op |-> op, ok |-> (o = "ok")]

\* What the initial select can resolve to.
SelectOutcomes == {"ok", "err"}

\* The detail of the gateway's error when it rejects the charge of row L
\* (the gateway answers for the card it is given).
DeclineDetail(L) == IF L.id % 2 = 1 THEN "CARD_DECLINED" ELSE "INSUFFICIENT_FUNDS"

\* What square.paymentsApi.createPayment can do for row L: resolve ("ok") or
\* reject with a reason; with no client (square = null) the call itself throws.
ChargeOutcomes(sq, L) == IF sq THEN {"ok", DeclineDetail(L)} ELSE {"TypeError"}

\* ------------------------------------------------------------ the runner
\* (mutation of Configured: only the store client is checked)
ConfiguredStoreOnly(sb, sq) == sb

\* !supabase || !square, negated.
Configured(sb, sq) == sb /\ sq

\* (mutation of IsDue: the filter on the saved card is dropped)
IsDueAnyCard(row, d) == row.autopay = TRUE /\ row.next_due_date = d

\* (mutation of IsDue: every lease due on or before the date is taken)
IsDueOrOverdue(row, d) ==
    /\ row.autopay = TRUE
    /\ row.square_card_id # NoCard
    /\ \/ row.next_due_date.y < d.y
       \/ row.next_due_date.y = d.y /\ row.next_due_date.m < d.m
       \/ row.next_due_date.y = d.y /\ row.next_due_date.m = d.m
          /\ row.next_due_date.d <= d.d

\* .eq('autopay', true).eq('next_due_date', today).not('square_card_id','is',null)
IsDue(row, d) ==
    /\ row.autopay = TRUE
    /\ row.next_due_date = d
    /\ row.square_card_id # NoCard

\* The rows of rows[i..] the selection returns, in the store's order (by id).
RECURSIVE SelectFrom(_, _, _)
SelectFrom(rows, i, d) ==
    IF i > Len(rows) THEN <<>>
    ELSE IF IsDue(rows[i], d) THEN <<rows[i]>> \o SelectFrom(rows, i + 1, d)
    ELSE SelectFrom(rows, i + 1, d)

SelectDue(rows, d) == SelectFrom(rows, 1, d)

\* The request sent to createPayment for row L, and what became of it.
ChargeRequest(r, L, key, d, ok, pid, reason) ==
    [run |-> r, lease_id |-> L.id, idempotencyKey |-> key,
     amount |-> L.rent_cents, sourceId |-> L.square_card_id,
     note |-> [lease_id |-> L.id, date |-> d],
     ok |-> ok, payment_id |-> pid, reason |-> reason]

\* The row inserted after a charge that went through.
PaidRow(L, pid, d) ==
    [lease_id |-> L.id, amount_cents |-> L.rent_cents, square_payment_id |-> pid,
     status |-> "paid", note |-> [text |-> "autopay", date |-> d]]

\* (mutation of FailedRow: the note does not carry the reason)
FailedRowNoReason(L, m) ==
    [lease_id |-> L.id, amount_cents |-> L.rent_cents, square_payment_id |-> NoId,
     status |-> "failed", note |-> [text |-> "autopay failed", date |-> NoDate]]

\* The row inserted by the catch block.
FailedRow(L, m) ==
    [lease_id |-> L.id, amount_cents |-> L.rent_cents, square_payment_id |-> NoId,
     status |-> "failed", note |-> [text |-> m, date |-> NoDate]]

OkResult(L, pid, next) ==
    [lease_id |-> L.id, ok |-> TRUE, payment_id |-> pid, next_due_date |-> next,
     error |-> NoText]

FailResult(L, m) ==
    [lease_id |-> L.id, ok |-> FALSE, payment_id |-> NoId, next_due_date |-> NoDate,
     error |-> m]

ErrorOut(m) == [kind |-> "error", error |-> m, date |-> NoDate, count |-> 0,
                results |-> <<>>]

\* (mutation of Summary: count is the number of leases that were charged)
SummaryCountsPaid(d, res) ==
    [kind |-> "summary", error |-> NoText, date |-> d,
     count |-> Cardinality({ i \in 1..Len(res) : res[i].ok }), results |-> res]

\* { date: today, count: results.length, results }
Summary(d, res) == [kind |-> "summary", error |-> NoText, date |-> d,
                    count |-> Len(res), results |-> res]

\* L.next_due_date || today
DueOrToday(L, d) == IF L.next_due_date = NoDate THEN d ELSE L.next_due_date

\* No other invocation is between its start and its return.
NoneRunning == \A q \in Runs : pc[q] \in {"idle", "done", "threw"}

\* Invocations are numbered in the order they start.
Started(r) == pc[r] # "idle"

\* (mutation of LoopStep: the loop is left after a lease that failed)
LoopStepAbortOnFailure(r, res) ==
    /\ results' = [results EXCEPT ![r] = res]
    /\ IF idx[r] < Len(due[r]) /\ res[Len(res)].ok
       THEN /\ idx' = [idx EXCEPT ![r] = idx[r] + 1]
            /\ pc' = [pc EXCEPT ![r] = "charge"]
            /\ out' = out
       ELSE /\ idx' = idx
            /\ pc' = [pc EXCEPT ![r] = "done"]
            /\ out' = [out EXCEPT ![r] = Summary(today[r], res)]

\* The for loop moves on from position idx[r], the results being res.
LoopStep(r, res) ==
    /\ results' = [results EXCEPT ![r] = res]
    /\ IF idx[r] < Len(due[r])
       THEN /\ idx' = [idx EXCEPT ![r] = idx[r] + 1]
            /\ pc' = [pc EXCEPT ![r] = "charge"]
            /\ out' = out
       ELSE /\ idx' = idx
            /\ pc' = [pc EXCEPT ![r] = "done"]
            /\ out' = [out EXCEPT ![r] = Summary(today[r], res)]

\* An exception thrown inside the try block is caught: the failure result is
\* pushed and the insert of the failed row is issued.
Catch(r, L, m) ==
    /\ msg' = [msg EXCEPT ![r] = m]
    /\ results' = [results EXCEPT ![r] = Append(results[r], FailResult(L, m))]
    /\ pc' = [pc EXCEPT ![r] = "recordFail"]

\* A request reaches runAutopayForDate(d): the configuration check, and the
\* selection is issued.
Start(r, d) ==
    /\ pc[r] = "idle"
    /\ IF r = 1 THEN TRUE ELSE Started(r - 1)
    /\ today' = [today EXCEPT ![r] = d]
    /\ leases0' = [leases0 EXCEPT ![r] = leases]
    /\ payments0' = [payments0 EXCEPT ![r] = Len(payments)]
    /\ IF Configured(supabase, square)
       THEN /\ pc' = [pc EXCEPT ![r] = "fetch"]
            /\ out' = out
       ELSE /\ pc' = [pc EXCEPT ![r] = "done"]
            /\ out' = [out EXCEPT ![r] = ErrorOut(NotConfiguredMsg)]
    /\ UNCHANGED <<supabase, square, leases, payments, charges, uuidCtr,
                   storeLog, due, idx, pay, msg, results,
                   tz, units, post, resp, last, fn>>

\* The selection resolves.
Fetch(r) ==
    /\ pc[r] = "fetch"
    /\ \E o \in SelectOutcomes :
         /\ storeLog' = Append(storeLog, StoreCall(r, 0, "select", o))
         /\ IF o = "err"
            THEN /\ out' = [out EXCEPT ![r] = ErrorOut(FetchErrMsg)]
                 /\ pc' = [pc EXCEPT ![r] = "done"]
                 /\ UNCHANGED <<due, idx>>
            ELSE LET rows == SelectDue(leases, today[r]) IN
                 /\ due' = [due EXCEPT ![r] = rows]
                 /\ IF rows = <<>>
                    THEN /\ pc' = [pc EXCEPT ![r] = "done"]
                         /\ out' = [out EXCEPT ![r] = Summary(today[r], <<>>)]
                         /\ idx' = idx
                    ELSE /\ pc' = [pc EXCEPT ![r] = "charge"]
                         /\ out' = out
                         /\ idx' = [idx EXCEPT ![r] = 1]
    /\ UNCHANGED <<supabase, square, leases, payments, charges, uuidCtr,
                   today, pay, msg, results, leases0, payments0, apiVars>>

\* (mutation of IdempotencyKey: the key is derived from the lease)
IdempotencyKeyOfLease(L, drawn) == L.id

\* idempotencyKey: uuid(), drawn when the payload of the charge of row L is
\* built; drawn is the number of keys uuid() has returned so far, and a
\* version 4 uuid is taken never to repeat.
IdempotencyKey(L, drawn) == drawn + 1

\* (mutation of AfterCharge: the lease is updated without the ledger insert)
AfterChargeSkipsLedger == "advance"

\* What follows a charge that went through: the insert of the paid row, and
\* only then the update of the lease.
AfterCharge == "record"

\* The tenant lookup (a read that only fills customerId) and the charge of
\* due[r][idx[r]] resolve.
Charge(r) ==
    /\ pc[r] = "charge"
    /\ LET L == due[r][idx[r]]
           key == IdempotencyKey(L, uuidCtr)
           pid == Len(charges) + 1
       IN  /\ uuidCtr' = uuidCtr + 1
           /\ \E o \in ChargeOutcomes(square, L) :
                IF o = "ok"
                THEN /\ charges' = Append(charges,
                            ChargeRequest(r, L, key, today[r], TRUE, pid, NoText))
                     /\ pay' = [pay EXCEPT ![r] = pid]
                     /\ pc' = [pc EXCEPT ![r] = AfterCharge]
                     /\ UNCHANGED <<msg, results>>
                ELSE /\ charges' = Append(charges,
                            ChargeRequest(r, L, key, today[r], FALSE, NoId, o))
                     /\ pay' = pay
                     /\ Catch(r, L, o)
    /\ UNCHANGED <<supabase, square, leases, payments, storeLog, today, due,
                   idx, out, leases0, payments0, apiVars>>

\* (mutation of RecordPaid: the update of the lease is not awaited; the loop
\* moves on when the insert has resolved)
RecordPaidThenNext(r) ==
    /\ pc[r] = "record"
    /\ LET L == due[r][idx[r]]
           next == nextMonthFirst(DueOrToday(L, today[r]))
       IN  \E o \in WriteOutcomes :
             /\ storeLog' = Append(storeLog, StoreCall(r, L.id, "insert paid", o))
             /\ payments' = IF o = "ok"
                            THEN Append(payments, PaidRow(L, pay[r], today[r]))
                            ELSE payments
             /\ LoopStep(r, Append(results[r], OkResult(L, pay[r], next)))
             /\ msg' = msg
    /\ UNCHANGED <<supabase, square, leases, charges, uuidCtr, today, due,
                   pay, leases0, payments0, apiVars>>

\* The insert of the paid row resolves; the update of the lease is issued.
RecordPaid(r) ==
    /\ pc[r] = "record"
    /\ LET L == due[r][idx[r]] IN
       \E o \in WriteOutcomes :
         /\ storeLog' = Append(storeLog, StoreCall(r, L.id, "insert paid", o))
         /\ payments' = IF o = "ok"
                        THEN Append(payments, PaidRow(L, pay[r], today[r]))
                        ELSE payments
         /\ IF o = "throw"
            THEN Catch(r, L, "store threw")
            ELSE /\ pc' = [pc EXCEPT ![r] = "advance"]
                 /\ UNCHANGED <<msg, results>>
    /\ UNCHANGED <<supabase, square, leases, charges, uuidCtr, today, due, idx,
                   pay, out, leases0, payments0, apiVars>>

\* (mutation of UpdateDue: the update also switches autopay off)
UpdateDueAutopayOff(rows, id, next) ==
    [rows EXCEPT ![id].next_due_date = next, ![id].autopay = FALSE]

\* update({ next_due_date: next }).eq('id', L.id), when it takes effect.
UpdateDue(rows, id, next) == [rows EXCEPT ![id].next_due_date = next]

\* The update of next_due_date resolves; the ok result is pushed.
Advance(r) ==
    /\ pc[r] = "advance"
    /\ LET L == due[r][idx[r]]
           next == nextMonthFirst(DueOrToday(L, today[r]))
       IN  \E o \in WriteOutcomes :
             /\ storeLog' = Append(storeLog, StoreCall(r, L.id, "update lease", o))
             /\ leases' = IF o = "ok"
                          THEN UpdateDue(leases, L.id, next)
                          ELSE leases
             /\ IF o = "throw"
                THEN /\ Catch(r, L, "store threw")
                     /\ UNCHANGED <<idx, out>>
                ELSE /\ LoopStep(r, Append(results[r], OkResult(L, pay[r], next)))
                     /\ msg' = msg
    /\ UNCHANGED <<supabase, square, payments, charges, uuidCtr, today, due,
                   pay, leases0, payments0, apiVars>>

\* The insert of the failed row resolves.  It is awaited in the catch block,
\* outside any try: were it to throw, the invocation would reject.
RecordFail(r) ==
    /\ pc[r] = "recordFail"
    /\ LET L == due[r][idx[r]] IN
       \E o \in WriteOutcomes :
         /\ storeLog' = Append(storeLog, StoreCall(r, L.id, "insert failed", o))
         /\ payments' = IF o = "ok"
                        THEN Append(payments, FailedRow(L, msg[r]))
                        ELSE payments
         /\ IF o = "throw"
            THEN /\ pc' = [pc EXCEPT ![r] = "threw"]
                 /\ UNCHANGED <<idx, out, results>>
            ELSE LoopStep(r, results[r])
    /\ UNCHANGED <<supabase, square, leases, charges, uuidCtr, today, due,
                   pay, msg, leases0, payments0, apiVars>>

\* POST /api/autopay/run and GET /api/autopay/run-test, one invocation at a
\* time: a request arrives when no other invocation is in progress.
Run(r) == NoneRunning /\ nreq' = nreq /\ \E d \in RunDates : Start(r, d)

Next ==
    \/ \E r \in Runs : Run(r)
    \/ \E r \in Runs : Fetch(r)
    \/ \E r \in Runs : Charge(r)
    \/ \E r \in Runs : RecordPaid(r)
    \/ \E r \in Runs : Advance(r)
    \/ \E r \in Runs : RecordFail(r)

Spec == Init /\ [][Next]_vars

\* ------------------------------------------------------- the CRUD routes
\* The routes on units and leases, and the preview.  A handler runs up to its
\* first await when the request arrives; a route with one store call is one
\* action, POST /api/leases with its two is two.
MidMonth == MkDate(2025, 12, 15)
StartDates == {MkDate(2025, 11, 15), D1}       \* start_date of a new lease
BodyDates == {NoDate, MidMonth}                \* next_due_date of the body, or none
PatchDates == {MidMonth}                       \* next_due_date of a PATCH body
PreviewDates == {NoDate, MkDate(2025, 3, 1), MkDate(2025, 3, 15)}
Statuses == {"vacant", "occupied"}             \* status of a unit
RateCents == 10000                             \* rate_cents of the units

\* What the CRUD routes neither read nor write, table leases apart.
runnerVars == <<square, payments, charges, uuidCtr, storeLog, pc, today, due,
                idx, pay, msg, results, out, leases0, payments0>>

UnitRow(id, status) == [id |-> id, rate_cents |-> RateCents, status |-> status]

\* The row had the server computed next_due_date whatever the body carries.
NewLeaseComputed(id, unit_id, start_date, next) ==
    [id |-> id, unit_id |-> unit_id, tenant_id |-> 1, start_date |-> start_date,
     rent_cents |-> RateCents, status |-> "active", billing_anchor_day |-> 1,
     square_card_id |-> "ccof:card", next_due_date |-> nextFirst(start_date),
     autopay |-> TRUE]

\* The row POST /api/leases inserts for a tenant with a saved card; next is
\* the body's next_due_date, or none.  next_due_date = nextFirst(start_date)
\* is the default of the destructuring: it applies only when the body carries
\* none.
NewLease(id, unit_id, start_date, next) ==
    [id |-> id, unit_id |-> unit_id, tenant_id |-> 1, start_date |-> start_date,
     rent_cents |-> RateCents, status |-> "active", billing_anchor_day |-> 1,
     square_card_id |-> "ccof:card",
     next_due_date |-> IF next = NoDate THEN nextFirst(start_date) ELSE next,
     autopay |-> TRUE]

\* The route op answers request number n with status code (0: the handler
\* threw).
Answer(op, n, code) ==
    last' = [op |-> op, n |-> n, status |-> code, unit_id |-> 0,
             start_date |-> NoDate]

\* A request may still arrive.  The routes are taken one request at a time
\* here, and between two invocations of the runner; invocations that overlap
\* are the subject of SpecOverlap.
MayRequest == nreq < MaxRequests /\ NoneRunning /\ post.pc # "occupy"

\* POST /api/units: the row is inserted with the body's status, 'vacant' by
\* default; number, size and rate_cents are required.
PostUnit ==
    /\ MayRequest
    /\ nreq' = nreq + 1
    /\ \E valid \in BOOLEAN, st \in Statuses, o \in StoreOutcomes :
         LET id == Len(units) + 1 IN
         IF ~supabase THEN Answer("POST /api/units", nreq + 1, 500) /\ units' = units
         ELSE IF ~valid THEN Answer("POST /api/units", nreq + 1, 400) /\ units' = units
         ELSE IF o = "err" \/ id > NumUnits
              THEN Answer("POST /api/units", nreq + 1, 400) /\ units' = units
         ELSE /\ units' = Append(units, UnitRow(id, st))
              /\ Answer("POST /api/units", nreq + 1, 200)
    /\ UNCHANGED <<supabase, leases, tz, post, resp, fn, runnerVars>>

\* PATCH /api/units/:id: the body is written to the row as it is.
PatchUnit ==
    /\ MayRequest
    /\ nreq' = nreq + 1
    /\ \E id \in 1..NumUnits, st \in Statuses, o \in StoreOutcomes :
         IF ~supabase THEN Answer("PATCH /api/units", nreq + 1, 500) /\ units' = units
         ELSE IF o = "err" \/ id > Len(units)
              THEN Answer("PATCH /api/units", nreq + 1, 400) /\ units' = units
         ELSE /\ units' = [units EXCEPT ![id].status = st]
              /\ Answer("PATCH /api/units", nreq + 1, 200)
    /\ UNCHANGED <<supabase, leases, tz, post, resp, fn, runnerVars>>

\* POST /api/leases arrives and its insert resolves; the update of the unit
\* is issued when the insert returned no error.
PostLease ==
    /\ MayRequest
    /\ nreq' = nreq + 1
    /\ \E u \in 1..Len(units), sd \in StartDates, nd \in BodyDates,
          o \in StoreOutcomes :
         LET id == Len(leases) + 1 IN
         IF ~supabase
         THEN /\ Answer("POST /api/leases", nreq + 1, 500)
              /\ UNCHANGED <<leases, post>>
         ELSE IF o = "err" \/ id > NumLeases
         THEN /\ Answer("POST /api/leases", nreq + 1, 400)
              /\ UNCHANGED <<leases, post>>
         ELSE /\ leases' = Append(leases, NewLease(id, u, sd, nd))
              /\ post' = [pc |-> "occupy", unit_id |-> u, lease_id |-> id, status |-> 0]
              /\ last' = last
    /\ UNCHANGED <<supabase, units, tz, resp, fn, runnerVars>>

\* (mutation of OccupyOutcome: the unit is left as it was)
OccupyOutcomeSkipped(rows, u) == rows

\* update({ status: 'occupied' }).eq('id', unit_id), when it takes effect.
OccupyOutcome(rows, u) == [rows EXCEPT ![u].status = "occupied"]

\* The update of the unit resolves.  It is built with throwOnError(): when the
\* store rejects it the handler throws and no response is sent.
OccupyUnit ==
    /\ post.pc = "occupy"
    /\ \E o \in StoreOutcomes :
         IF o = "ok"
         THEN /\ units' = OccupyOutcome(units, post.unit_id)
              /\ post' = [post EXCEPT !.pc = "done", !.status = 200]
              /\ Answer("POST /api/leases", nreq, 200)
         ELSE /\ units' = units
              /\ post' = [post EXCEPT !.pc = "threw"]
              /\ Answer("POST /api/leases", nreq, 0)
    /\ UNCHANGED <<supabase, leases, tz, resp, nreq, fn, runnerVars>>

\* PATCH /api/leases/:id: the body is written to the row as it is.
PatchLease ==
    /\ MayRequest
    /\ nreq' = nreq + 1
    /\ \E id \in 1..NumLeases, nd \in PatchDates, o \in StoreOutcomes :
         IF ~supabase THEN Answer("PATCH /api/leases", nreq + 1, 500) /\ leases' = leases
         ELSE IF o = "err" \/ id > Len(leases)
              THEN Answer("PATCH /api/leases", nreq + 1, 400) /\ leases' = leases
         ELSE /\ leases' = [leases EXCEPT ![id].next_due_date = nd]
              /\ Answer("PATCH /api/leases", nreq + 1, 200)
    /\ UNCHANGED <<supabase, units, tz, post, resp, fn, runnerVars>>

PreviewError(code, m) ==
    [status |-> code, error |-> m, amount_cents |-> 0, next_due_date |-> NoDate,
     monthly_cents |-> 0, billing_anchor_day |-> 0]

\* { amount_cents, next_due_date, monthly_cents, billing_anchor_day: 1 }
PreviewBody(off, unit, start_date) ==
    [status |-> 200, error |-> NoText,
     amount_cents |-> prorateCents(off, start_date, unit.rate_cents),
     next_due_date |-> nextFirst(start_date),
     monthly_cents |-> unit.rate_cents, billing_anchor_day |-> 1]

\* GET /api/leases/preview; unit_id 0 stands for a query without unit_id.
Preview ==
    /\ MayRequest
    /\ nreq' = nreq + 1
    /\ \E u \in 0..NumUnits, sd \in PreviewDates, o \in SelectOutcomes :
         LET r == IF ~supabase
                  THEN PreviewError(500, "Supabase not configured on server")
                  ELSE IF u = 0 \/ sd = NoDate
                  THEN PreviewError(400, "unit_id and start_date are required")
                  ELSE IF o = "err" \/ u > Len(units)
                  THEN PreviewError(404, "Unit not found")
                  ELSE PreviewBody(tz, units[u], sd)
         IN  /\ resp' = r
             /\ last' = [op |-> "GET /api/leases/preview", n |-> nreq + 1,
                         status |-> r.status, unit_id |-> u, start_date |-> sd]
    /\ UNCHANGED <<supabase, leases, units, tz, post, fn, runnerVars>>

\* GET /api/payments: a read of table payments, newest first, cut at the
\* effective limit (EffectiveLimit); nothing is written.
GetPayments ==
    /\ MayRequest
    /\ nreq' = nreq + 1
    /\ \E o \in SelectOutcomes :
         IF ~supabase THEN Answer("GET /api/payments", nreq + 1, 500)
         ELSE IF o = "err" THEN Answer("GET /api/payments", nreq + 1, 400)
         ELSE Answer("GET /api/payments", nreq + 1, 200)
    /\ UNCHANGED <<supabase, leases, units, tz, post, resp, fn, runnerVars>>

\* (mutation of RefundLedger: the refunded payment's row is marked)
RefundLedgerMarked(rows, pid) ==
    [i \in 1..Len(rows) |->
       IF rows[i].square_payment_id = pid
       THEN [rows[i] EXCEPT !.status = "refunded"] ELSE rows[i]]

\* Table payments after a refund of payment pid went through: the route
\* calls the gateway and writes nothing to the store.
RefundLedger(rows, pid) == rows

\* POST /api/payments/refund; payment_id 0 stands for a body without it.  The
\* gateway refunds the payment or rejects the request.
Refund ==
    /\ MayRequest
    /\ nreq' = nreq + 1
    /\ \E pid \in 0..Len(charges), o \in {"ok", "rejected"} :
         IF ~square
         THEN Answer("POST /api/payments/refund", nreq + 1, 503) /\ payments' = payments
         ELSE IF pid = 0 \/ o = "rejected"
         THEN Answer("POST /api/payments/refund", nreq + 1, 400) /\ payments' = payments
         ELSE /\ payments' = RefundLedger(payments, pid)
              /\ Answer("POST /api/payments/refund", nreq + 1, 200)
    /\ UNCHANGED <<supabase, square, leases, units, tz, post, resp, fn, charges,
                   uuidCtr, storeLog, pc, today, due, idx, pay, msg, results, out,
                   leases0, payments0>>

\* POST /api/autopay/run, as one of the requests.
RunRequest(r) ==
    /\ MayRequest
    /\ nreq' = nreq + 1
    /\ \E d \in RunDates : Start(r, d)

\* The store as the routes find it: one vacant unit, no lease yet; the
\* process runs in some time zone.
InitApi ==
    /\ supabase \in BOOLEAN
    /\ square = TRUE
    /\ leases = <<>>
    /\ RunnerIdle
    /\ tz \in TzOffsets
    /\ units = <<UnitRow(1, "vacant")>>
    /\ ApiIdle
    /\ fn = NoFn

NextApi ==
    \/ PostUnit
    \/ PatchUnit
    \/ PostLease
    \/ OccupyUnit
    \/ PatchLease
    \/ Preview
    \/ GetPayments
    \/ Refund
    \/ \E r \in Runs : RunRequest(r)
    \/ \E r \in Runs : Fetch(r)
    \/ \E r \in Runs : Charge(r)
    \/ \E r \in Runs : RecordPaid(r)
    \/ \E r \in Runs : Advance(r)
    \/ \E r \in Runs : RecordFail(r)

SpecApi == InitApi /\ [][NextApi]_vars

\* ------------------------------------------------------ the pure helpers
\* prorateCents, nextFirst, nextMonthFirst and the limit of GET /api/payments,
\* applied to arguments fixed at the start: a calendar date, a monthly amount,
\* and, for the limit, a query value.
FnMonths == {<<1900, 2>>, <<2024, 2>>, <<2025, 1>>, <<2025, 2>>, <<2025, 3>>,
             <<2025, 4>>, <<2025, 12>>}
FnDates == UNION { { MkDate(ym[1], ym[2], d) : d \in 1..DaysInMonth(ym[1], ym[2]) } :
                   ym \in FnMonths }
Amounts == {0, 1, 999, 10000}
LimitQueries ==
    {[kind |-> "absent", n |-> 0], [kind |-> "text", n |-> 0]}
      \cup { [kind |-> "int", n |-> n] : n \in {0 - 5, 0, 1, 250, 500, 501, 1000} }

InitFn ==
    /\ supabase = TRUE
    /\ square = TRUE
    /\ leases = <<>>
    /\ RunnerIdle
    /\ tz \in TzOffsets
    /\ units = <<>>
    /\ ApiIdle
    /\ fn \in { [NoFn EXCEPT !.date = d, !.cents = c] : d \in FnDates, c \in Amounts }

fnFrame == UNCHANGED <<supabase, leases, tz, units, post, resp, last, nreq, runnerVars>>

ApplyProrate ==
    /\ "prorateCents" \notin fn.done
    /\ fn' = [fn EXCEPT !.done = @ \cup {"prorateCents"},
                        !.prorated = prorateCents(tz, fn.date, fn.cents)]
    /\ fnFrame

ApplyNextFirst ==
    /\ "nextFirst" \notin fn.done
    /\ fn' = [fn EXCEPT !.done = @ \cup {"nextFirst"},
                        !.nextFirst = nextFirst(fn.date)]
    /\ fnFrame

ApplyNextMonthFirst ==
    /\ "nextMonthFirst" \notin fn.done
    /\ fn' = [fn EXCEPT !.done = @ \cup {"nextMonthFirst"},
                        !.nextMonthFirst = nextMonthFirst(fn.date)]
    /\ fnFrame

ApplyLimit ==
    /\ "limit" \notin fn.done
    /\ \E q \in LimitQueries :
         fn' = [fn EXCEPT !.done = @ \cup {"limit"}, !.query = q,
                          !.limit = EffectiveLimit(q)]
    /\ fnFrame

NextFn ==
    \/ ApplyProrate
    \/ ApplyNextFirst
    \/ ApplyNextMonthFirst
    \/ ApplyLimit

SpecFn == InitFn /\ [][NextFn]_vars

\* ---------------------------------------------------- overlapping runs
\* The two runner routes take a request whenever it arrives: an invocation
\* may start while another is between two of its awaits.
\* (mutation of RunAnyTime: a request waits until no invocation is running)
RunWhenNoneRunning(r) ==
    NoneRunning /\ nreq' = nreq /\ \E d \in RunDates : Start(r, d)

RunAnyTime(r) == nreq' = nreq /\ \E d \in RunDates : Start(r, d)

\* Both clients are configured and every lease is due on a run date, with
\* autopay on and a saved card.
InitOverlap ==
    /\ supabase = TRUE
    /\ square = TRUE
    /\ leases \in { f \in [LeaseIds -> UNION { InitLeaseRows(i) : i \in LeaseIds }] :
                      \A i \in LeaseIds : f[i] \in InitLeaseRows(i) /\ IsDue(f[i], f[i].next_due_date) }
    /\ RunnerIdle
    /\ tz = 0
    /\ units = <<>>
    /\ ApiIdle
    /\ fn = NoFn

NextOverlap ==
    \/ \E r \in Runs : RunAnyTime(r)
    \/ \E r \in Runs : Fetch(r)
    \/ \E r \in Runs : Charge(r)
    \/ \E r \in Runs : RecordPaid(r)
    \/ \E r \in Runs : Advance(r)
    \/ \E r \in Runs : RecordFail(r)

SpecOverlap == InitOverlap /\ [][NextOverlap]_vars

\* ---------------------------------------------------------- observations
\* What can be read off a state about invocation r.  Invocations do not
\* overlap under Spec, so what r did lies between its start and the start of
\* the next one.
Returned(r) == pc[r] = "done"
Completed(r) == pc[r] = "done" /\ out[r].kind = "summary"

HasNext(r) == IF r < NumRuns THEN Started(r + 1) ELSE FALSE

\* r is the invocation started last; it has just returned its summary when no
\* other invocation has started since.
Latest(r) == Started(r) /\ ~HasNext(r)
JustCompleted(r) == Completed(r) /\ ~HasNext(r)

\* Table leases, and the rows added to table payments, once r had finished.
LeasesAfter(r) == IF HasNext(r) THEN leases0[r + 1] ELSE leases
RowsAdded(r) ==
    SubSeq(payments, payments0[r] + 1,
           IF HasNext(r) THEN payments0[r + 1] ELSE Len(payments))
RowsAddedFor(r, l) ==
    { i \in 1..Len(RowsAdded(r)) : RowsAdded(r)[i].lease_id = l }

SelIdx(r) == 1..Len(due[r])
SelIds(r) == { due[r][i].id : i \in SelIdx(r) }

CallsBy(r, l, ops) ==
    { i \in 1..Len(storeLog) :
        storeLog[i].run = r /\ storeLog[i].lease_id = l /\ storeLog[i].op \in ops }
Accepted(r, l, op) == \E i \in CallsBy(r, l, {op}) : storeLog[i].ok
Rejected(r, l, op) == \E i \in CallsBy(r, l, {op}) : ~storeLog[i].ok
Inserts == {"insert paid", "insert failed"}

\* The selection of r has answered without error.
SelectionDone(r) == Accepted(r, 0, "select")

ChargesBy(r, l) ==
    { i \in 1..Len(charges) : charges[i].run = r /\ charges[i].lease_id = l }
ChargeOk(r, l) == \E i \in ChargesBy(r, l) : charges[i].ok
ChargeFailed(r, l) == \E i \in ChargesBy(r, l) : ~charges[i].ok

\* next_anchor of the specification: the 1st of the month after d's month.
next_anchor(d) == IF d.m = 12 THEN MkDate(d.y + 1, 1, 1) ELSE MkDate(d.y, d.m + 1, 1)

DueDateAfter(r, l) == LeasesAfter(r)[l].next_due_date

\* ------------------------------------------------------------------ C1
\* C1 as stated: a completed run has one result per selected lease, in order,
\* ok exactly for the leases whose charge succeeded; every selected lease was
\* charged once (a failure stops nothing); every lease whose charge succeeded
\* has its next_due_date advanced and every lease whose charge failed has it
\* unchanged.
C1_PartialFailureIsolation ==
    \A r \in Runs : JustCompleted(r) =>
      /\ Len(out[r].results) = Len(due[r])
      /\ \A i \in SelIdx(r) :
           LET L == due[r][i]
               res == out[r].results[i]
           IN  /\ res.lease_id = L.id
               /\ Cardinality(ChargesBy(r, L.id)) = 1
               /\ res.ok <=> ChargeOk(r, L.id)
               /\ ChargeOk(r, L.id) =>
                    DueDateAfter(r, L.id) = next_anchor(L.next_due_date)
               /\ ChargeFailed(r, L.id) =>
                    DueDateAfter(r, L.id) = L.next_due_date

\* C1 as amended: the same, except that a lease whose charge succeeded has its
\* next_due_date advanced when the store accepted the update of that lease,
\* and unchanged when the store rejected it.
C1_IsolationWhenStoreAccepts ==
    \A r \in Runs : JustCompleted(r) =>
      /\ Len(out[r].results) = Len(due[r])
      /\ \A i \in SelIdx(r) :
           LET L == due[r][i]
               res == out[r].results[i]
           IN  /\ res.lease_id = L.id
               /\ Cardinality(ChargesBy(r, L.id)) = 1
               /\ res.ok <=> ChargeOk(r, L.id)
               /\ ChargeOk(r, L.id) =>
                    /\ Cardinality(CallsBy(r, L.id, {"update lease"})) = 1
                    /\ Accepted(r, L.id, "update lease") =>
                         DueDateAfter(r, L.id) = next_anchor(L.next_due_date)
                    /\ Rejected(r, L.id, "update lease") =>
                         DueDateAfter(r, L.id) = L.next_due_date
               /\ ChargeFailed(r, L.id) =>
                    DueDateAfter(r, L.id) = L.next_due_date

\* A completed run whose first lease failed and whose second lease was then
\* charged and advanced.
C1_Witness ==
    \E r \in Runs :
      /\ Completed(r)
      /\ Len(due[r]) >= 2
      /\ ~out[r].results[1].ok
      /\ out[r].results[2].ok
      /\ DueDateAfter(r, due[r][1].id) = due[r][1].next_due_date
      /\ DueDateAfter(r, due[r][2].id) = next_anchor(due[r][2].next_due_date)

\* ------------------------------------------------------------------ C2
\* C2 as stated: after a completed run the rows added to the ledger are one
\* per selected lease, whatever the gateway and the store answered.
C2_OneLedgerRowPerAttempt ==
    \A r \in Runs : JustCompleted(r) =>
      /\ Len(RowsAdded(r)) = Len(due[r])
      /\ \A l \in SelIds(r) : Cardinality(RowsAddedFor(r, l)) = 1

\* C2 as amended: every attempt issues exactly one insert into the ledger; one
\* row is added for the lease when the store accepts that insert and none
\* when it rejects it; never two rows for one attempt.
C2_OneInsertPerAttempt ==
    \A r \in Runs : JustCompleted(r) =>
      /\ \A l \in SelIds(r) :
           /\ Cardinality(CallsBy(r, l, Inserts)) = 1
           /\ Cardinality(RowsAddedFor(r, l)) =
                IF \E i \in CallsBy(r, l, Inserts) : storeLog[i].ok THEN 1 ELSE 0
      /\ \A i \in 1..Len(RowsAdded(r)) : RowsAdded(r)[i].lease_id \in SelIds(r)

\* A completed run with two attempts, one paid and one failed, and one ledger
\* row added for each.
C2_Witness ==
    \E r \in Runs :
      /\ Completed(r)
      /\ Len(due[r]) = 2
      /\ Len(RowsAdded(r)) = 2
      /\ \E i, j \in 1..2 : /\ RowsAdded(r)[i].status = "paid"
                            /\ RowsAdded(r)[j].status = "failed"

\* ------------------------------------------------------------------ C3
AllOk(r) == \A i \in 1..Len(out[r].results) : out[r].results[i].ok
OkIds(r) ==
    { out[r].results[i].lease_id : i \in { j \in 1..Len(out[r].results) :
                                            out[r].results[j].ok } }
FailedIds(r) ==
    { out[r].results[i].lease_id : i \in { j \in 1..Len(out[r].results) :
                                            ~out[r].results[j].ok } }
ChargedIds(r) == { charges[i].lease_id : i \in { j \in 1..Len(charges) :
                                                  charges[j].run = r } }

\* r and r + 1 are consecutive runs for the same date, no run has started
\* since, and the selection of r + 1 has answered.
RerunSameDate(r) ==
    /\ r < NumRuns
    /\ Completed(r)
    /\ Latest(r + 1)
    /\ SelectionDone(r + 1)
    /\ today[r + 1] = today[r]

\* C3 as stated: when a run for D returned ok for every selected lease, the
\* next run for the same D selects no lease, charges nothing and, once it has
\* returned, reports count 0 and no result.
C3_RerunSelectsNothing ==
    \A r \in Runs :
      (RerunSameDate(r) /\ AllOk(r)) =>
        /\ due[r + 1] = <<>>
        /\ ChargedIds(r + 1) = {}
        /\ Returned(r + 1) => out[r + 1].count = 0 /\ out[r + 1].results = <<>>

\* ------------------------------------------------------------------ C4
\* C4 as stated: when a run for D reported some leases ok and some failed, the
\* next run for the same D selects exactly the leases reported failed and,
\* once it has returned, has charged exactly those.
C4_RerunRetriesExactlyFailed ==
    \A r \in Runs :
      (RerunSameDate(r) /\ OkIds(r) # {} /\ FailedIds(r) # {}) =>
        /\ SelIds(r + 1) = FailedIds(r)
        /\ Returned(r + 1) => ChargedIds(r + 1) = FailedIds(r)

\* ------------------------------------------------------------------ C5
DateLeq(a, b) ==
    \/ a.y < b.y
    \/ a.y = b.y /\ a.m < b.m
    \/ a.y = b.y /\ a.m = b.m /\ a.d <= b.d

\* r + 1 is the run after r, no run has started since, and its selection
\* has answered.
NextRunSelected(r) ==
    /\ r < NumRuns
    /\ Completed(r)
    /\ Latest(r + 1)
    /\ SelectionDone(r + 1)

\* C5 as stated: a lease whose charge failed in a run for D is selected by the
\* next run, whether that run is for D or for a later date.
C5_FailedLeaseRetriedSameOrLater ==
    \A r \in Runs : \A l \in LeaseIds :
      (NextRunSelected(r) /\ l \in FailedIds(r) /\ DateLeq(today[r], today[r + 1]))
        => l \in SelIds(r + 1)

\* C5 as amended: a lease whose charge failed in a run for D keeps D as its
\* due date, and the next run selects it exactly when that run is for D; a
\* run for a later date does not select it.
C5_FailedLeaseRetriedSameDateOnly ==
    \A r \in Runs : \A l \in LeaseIds :
      /\ (JustCompleted(r) /\ l \in FailedIds(r)) => DueDateAfter(r, l) = today[r]
      /\ (NextRunSelected(r) /\ l \in FailedIds(r)) =>
           (l \in SelIds(r + 1) <=> today[r + 1] = today[r])

\* A lease failed in one run and the next run, for the same date, selected
\* it and charged it again.
C5_Witness ==
    \E r \in Runs : \E l \in LeaseIds :
      /\ NextRunSelected(r)
      /\ l \in FailedIds(r)
      /\ today[r + 1] = today[r]
      /\ l \in SelIds(r + 1)
      /\ l \in ChargedIds(r + 1)

\* ------------------------------------------------------------------ C6
\* The leases a run for d is to select, read off the table as it was when the
\* run started.
Eligible(r, l) ==
    /\ leases0[r][l].autopay = TRUE
    /\ leases0[r][l].next_due_date = today[r]
    /\ leases0[r][l].square_card_id # NoCard

\* C6: once the selection has answered, the selected leases are exactly those
\* with autopay on, due on the run's date and with a saved card; any other
\* lease is never charged by the run, gets no ledger row from it, is absent
\* from its results and keeps its row unchanged.
C6_Exclusion ==
    \A r \in Runs : (Latest(r) /\ SelectionDone(r)) =>
      /\ SelIds(r) = { l \in LeaseIds : Eligible(r, l) }
      /\ \A l \in LeaseIds : ~Eligible(r, l) =>
           /\ ChargesBy(r, l) = {}
           /\ RowsAddedFor(r, l) = {}
           /\ CallsBy(r, l, Inserts \cup {"update lease"}) = {}
           /\ \A i \in 1..Len(results[r]) : results[r][i].lease_id # l
           /\ LeasesAfter(r)[l] = leases0[r][l]

\* A completed run that charged a lease and recorded it, while another lease
\* due the same day, with autopay off or without a card, was left alone.
C6_Witness ==
    \E r \in Runs : \E l, k \in LeaseIds :
      /\ Completed(r)
      /\ l \in SelIds(r) /\ RowsAddedFor(r, l) # {}
      /\ leases0[r][k].next_due_date = today[r]
      /\ leases0[r][k].autopay = FALSE \/ leases0[r][k].square_card_id = NoCard
      /\ ChargesBy(r, k) = {}

\* ------------------------------------------------------------------ C7
\* The result the run reports for lease l.
ResultFor(r, l) ==
    { out[r].results[i] : i \in { j \in 1..Len(out[r].results) :
                                   out[r].results[j].lease_id = l } }
PaymentIdOf(r, l) == charges[CHOOSE i \in ChargesBy(r, l) : charges[i].ok].payment_id
SelRow(r, l) == due[r][CHOOSE i \in SelIdx(r) : due[r][i].id = l]

\* C7 as stated: after a successful charge of a selected lease the ledger has
\* a new paid row carrying the gateway's payment id, the lease's next_due_date
\* is next_anchor of its previous one, and the result is ok with that payment
\* id and that date.
C7_SuccessRecordedAndAdvanced ==
    \A r \in Runs : \A l \in LeaseIds :
      (JustCompleted(r) /\ ChargeOk(r, l)) =>
        LET L == SelRow(r, l)
            pid == PaymentIdOf(r, l)
            next == next_anchor(L.next_due_date)
        IN  /\ \E i \in RowsAddedFor(r, l) :
                 /\ RowsAdded(r)[i].status = "paid"
                 /\ RowsAdded(r)[i].square_payment_id = pid
            /\ DueDateAfter(r, l) = next
            /\ ResultFor(r, l) = { [lease_id |-> l, ok |-> TRUE, payment_id |-> pid,
                                    next_due_date |-> next, error |-> NoText] }

\* C7 as amended: after a successful charge the run issues one insert of a
\* paid row (lease, rent amount, payment id) and one update of next_due_date
\* to next_anchor of the previous one; the row is in the ledger when the
\* store accepted the insert, the date is advanced when the store accepted
\* the update and unchanged otherwise; the result is ok with the payment id
\* and the new date either way.
C7_SuccessWritesIssued ==
    \A r \in Runs : \A l \in LeaseIds :
      (JustCompleted(r) /\ ChargeOk(r, l)) =>
        LET L == SelRow(r, l)
            pid == PaymentIdOf(r, l)
            next == next_anchor(L.next_due_date)
        IN  /\ pid # NoId
            /\ Cardinality(CallsBy(r, l, {"insert paid"})) = 1
            /\ CallsBy(r, l, {"insert failed"}) = {}
            /\ Cardinality(CallsBy(r, l, {"update lease"})) = 1
            /\ Accepted(r, l, "insert paid") =>
                 \A i \in RowsAddedFor(r, l) :
                   RowsAdded(r)[i] =
                     [lease_id |-> l, amount_cents |-> L.rent_cents,
                      square_payment_id |-> pid, status |-> "paid",
                      note |-> [text |-> "autopay", date |-> today[r]]]
            /\ Cardinality(RowsAddedFor(r, l)) =
                 IF Accepted(r, l, "insert paid") THEN 1 ELSE 0
            /\ DueDateAfter(r, l) =
                 IF Accepted(r, l, "update lease") THEN next ELSE L.next_due_date
            /\ ResultFor(r, l) = { [lease_id |-> l, ok |-> TRUE, payment_id |-> pid,
                                    next_due_date |-> next, error |-> NoText] }

\* A lease due on 1 December was charged, its paid row is in the ledger and
\* its next_due_date is 1 January of the next year.
C7_Witness ==
    \E r \in Runs : \E l \in LeaseIds :
      /\ Completed(r) /\ ChargeOk(r, l)
      /\ today[r] = D1
      /\ \E i \in RowsAddedFor(r, l) : RowsAdded(r)[i].status = "paid"
      /\ DueDateAfter(r, l) = MkDate(2026, 1, 1)

\* ------------------------------------------------------------------ C8
ReasonOf(r, l) == charges[CHOOSE i \in ChargesBy(r, l) : ~charges[i].ok].reason

\* C8 as stated: after a failed charge of a selected lease the ledger has a
\* new failed row carrying the reason, the lease's next_due_date is unchanged
\* and the result is not ok with the reason.
C8_FailureRecorded ==
    \A r \in Runs : \A l \in LeaseIds :
      (JustCompleted(r) /\ ChargeFailed(r, l)) =>
        /\ \E i \in RowsAddedFor(r, l) :
             /\ RowsAdded(r)[i].status = "failed"
             /\ RowsAdded(r)[i].note.text = ReasonOf(r, l)
        /\ DueDateAfter(r, l) = SelRow(r, l).next_due_date
        /\ ResultFor(r, l) = { [lease_id |-> l, ok |-> FALSE, payment_id |-> NoId,
                                next_due_date |-> NoDate, error |-> ReasonOf(r, l)] }

\* C8 as amended: after a failed charge the run issues one insert of a failed
\* row carrying the reason and no update of the lease; the row is in the
\* ledger when the store accepted the insert; next_due_date is unchanged and
\* the result is not ok with the reason either way.
C8_FailureInsertIssued ==
    \A r \in Runs : \A l \in LeaseIds :
      (JustCompleted(r) /\ ChargeFailed(r, l)) =>
        LET L == SelRow(r, l) IN
        /\ ReasonOf(r, l) \in Reasons
        /\ Cardinality(CallsBy(r, l, {"insert failed"})) = 1
        /\ CallsBy(r, l, {"insert paid", "update lease"}) = {}
        /\ Accepted(r, l, "insert failed") =>
             \A i \in RowsAddedFor(r, l) :
               RowsAdded(r)[i] =
                 [lease_id |-> l, amount_cents |-> L.rent_cents,
                  square_payment_id |-> NoId, status |-> "failed",
                  note |-> [text |-> ReasonOf(r, l), date |-> NoDate]]
        /\ Cardinality(RowsAddedFor(r, l)) =
             IF Accepted(r, l, "insert failed") THEN 1 ELSE 0
        /\ DueDateAfter(r, l) = L.next_due_date
        /\ ResultFor(r, l) = { [lease_id |-> l, ok |-> FALSE, payment_id |-> NoId,
                                next_due_date |-> NoDate, error |-> ReasonOf(r, l)] }

\* A charge was rejected and the failed row with the reason is in the ledger.
C8_Witness ==
    \E r \in Runs : \E l \in LeaseIds :
      /\ Completed(r) /\ ChargeFailed(r, l)
      /\ \E i \in RowsAddedFor(r, l) :
           /\ RowsAdded(r)[i].status = "failed"
           /\ RowsAdded(r)[i].note.text = ReasonOf(r, l)
      /\ DueDateAfter(r, l) = today[r]

\* ------------------------------------------------------------------ C9
\* Run r has left the store, the ledger and the gateway untouched.
Untouched(r) ==
    /\ ChargedIds(r) = {}
    /\ \A l \in LeaseIds : CallsBy(r, l, Inserts \cup {"update lease"}) = {}
    /\ RowsAdded(r) = <<>>
    /\ LeasesAfter(r) = leases0[r]
    /\ results[r] = <<>>

\* C9: with the store client or the gateway client missing, an invocation
\* returns at once the single error 'Backend not fully configured'; when the
\* selection answers with an error it returns that error; in both cases there
\* are no results and no lease was charged, no ledger row written and no due
\* date changed.
C9_ConfigFailureAtomic ==
    \A r \in Runs :
      /\ (Latest(r) /\ (~supabase \/ ~square)) =>
           /\ Returned(r)
           /\ out[r] = [kind |-> "error", error |-> NotConfiguredMsg, date |-> NoDate,
                        count |-> 0, results |-> <<>>]
           /\ storeLog = <<>>
           /\ Untouched(r)
      /\ (Latest(r) /\ Rejected(r, 0, "select")) =>
           /\ Returned(r)
           /\ out[r] = [kind |-> "error", error |-> FetchErrMsg, date |-> NoDate,
                        count |-> 0, results |-> <<>>]
           /\ Untouched(r)
      /\ (Latest(r) /\ Returned(r) /\ out[r].kind = "error") => Untouched(r)

\* The selection of a run failed while a lease was due and could be charged.
C9_Witness ==
    \E r \in Runs : \E l \in LeaseIds :
      /\ Returned(r)
      /\ Rejected(r, 0, "select")
      /\ Eligible(r, l)
      /\ out[r].kind = "error"

\* ------------------------------------------------------------------ C10
InLoop(r) == pc[r] \in {"charge", "record", "advance", "recordFail"}

\* C10: no invocation ends by throwing; once its selection has answered, an
\* invocation is either in the loop, at a lease of its selection and able to
\* take its next step whatever the gateway and the store answer, or it has
\* returned the summary {date, count, results} with one result per selected
\* lease.
C10_RunReturnsSummary ==
    \A r \in Runs :
      /\ pc[r] # "threw"
      /\ (Latest(r) /\ SelectionDone(r)) =>
           \/ /\ InLoop(r)
              /\ idx[r] \in SelIdx(r)
              /\ Len(results[r]) \in {idx[r] - 1, idx[r]}
              /\ ENABLED (Charge(r) \/ RecordPaid(r) \/ Advance(r) \/ RecordFail(r))
           \/ /\ Returned(r)
              /\ out[r] = [kind |-> "summary", error |-> NoText, date |-> today[r],
                           count |-> Len(due[r]), results |-> results[r]]
              /\ Len(results[r]) = Len(due[r])

\* A run returned its summary of two results although a charge was rejected
\* and the store then rejected the insert of the failed row.
C10_Witness ==
    \E r \in Runs : \E l \in LeaseIds :
      /\ Completed(r)
      /\ ChargeFailed(r, l)
      /\ Rejected(r, l, "insert failed")
      /\ out[r].count = 2

\* ------------------------------------------------------------------ C11
\* C11 as stated: in every reachable state of the lease store, every lease
\* that has a next_due_date has one whose day-of-month is 1, whatever lease
\* creations, lease patches and autopay runs came before.
C11_DueDateIsFirst ==
    \A i \in DOMAIN leases :
      leases[i].next_due_date # NoDate => leases[i].next_due_date.d = 1

\* ------------------------------------------------------------------ C12
\* The reference proration of the specification, on the calendar date as it
\* is written.
RefLeap(y) == y % 4 = 0 /\ (y % 100 # 0 \/ y % 400 = 0)
RefDaysInMonth(y, m) ==
    <<31, IF RefLeap(y) THEN 29 ELSE 28, 31, 30, 31, 30, 31, 31, 30, 31, 30, 31>>[m]
RoundHalfUp(n, d) == IF 2 * (n % d) >= d THEN (n \div d) + 1 ELSE n \div d
ProrateRef(date, M) ==
    LET dim == RefDaysInMonth(date.y, date.m) IN
    IF date.d = 1 THEN M ELSE RoundHalfUp(M * (dim - date.d + 1), dim)

Prorated == "prorateCents" \in fn.done

\* C12 as stated: for every calendar date and every monthly amount M >= 0,
\* prorateCents returns the reference proration: M when the start day is 1,
\* otherwise round(M * (days_in_month - start_day + 1) / days_in_month), an
\* exact half rounded up, with the right number of days for every month.
C12_ProrateIsReference ==
    Prorated => fn.prorated = ProrateRef(fn.date, fn.cents)

\* ------------------------------------------------------------------ C13
\* C13 as stated: for a fixed month and a fixed amount M >= 0, prorateCents
\* is non-increasing in the start day: a later start day of the same month,
\* the step from day 1 to day 2 included, is never charged more.
C13_ProrateNonIncreasing ==
    Prorated =>
      \A b \in (fn.date.d + 1)..RefDaysInMonth(fn.date.y, fn.date.m) :
        prorateCents(tz, [fn.date EXCEPT !.d = b], fn.cents) <= fn.prorated

\* ------------------------------------------------------------------ C14
\* C14: for every calendar date d, nextFirst and nextMonthFirst return the
\* same date, day 1 of the month after d's month whatever d's day, December
\* rolling over to January of the next year.
C14_AdvancersAgree ==
    /\ "nextFirst" \in fn.done =>
         /\ fn.nextFirst = next_anchor(fn.date)
         /\ fn.nextFirst.d = 1
    /\ "nextMonthFirst" \in fn.done =>
         /\ fn.nextMonthFirst = next_anchor(fn.date)
         /\ fn.nextMonthFirst.d = 1
    /\ {"nextFirst", "nextMonthFirst"} \subseteq fn.done =>
         fn.nextFirst = fn.nextMonthFirst

\* Both advancers were applied to 2025-12-15 and returned 2026-01-01.
C14_Witness ==
    /\ {"nextFirst", "nextMonthFirst"} \subseteq fn.done
    /\ fn.date = MkDate(2025, 12, 15)
    /\ fn.nextFirst = MkDate(2026, 1, 1)
    /\ fn.nextMonthFirst = MkDate(2026, 1, 1)

\* ------------------------------------------------------------------ C15
\* What a step is, read off the two states it joins.
LeaseCreationEnds == post.pc = "occupy" /\ post'.pc # "occupy"
LeaseInsertFailed ==
    /\ last' # last
    /\ last'.op = "POST /api/leases"
    /\ last'.status = 400
UnitRouteAnswers200 ==
    /\ last' # last
    /\ last'.op \in {"POST /api/units", "PATCH /api/units"}
    /\ last'.status = 200
BecomesOccupied(u) ==
    units[u].status # "occupied" /\ units'[u].status = "occupied"

\* C15 as stated: a POST /api/leases whose lease was inserted sets the
\* referenced unit to occupied; a failed lease insert leaves every unit as it
\* was; and a unit becomes occupied in no step other than the creation of a
\* lease that references it.
C15_OccupiedExactlyOnLease ==
    [][ /\ LeaseCreationEnds => units'[post.unit_id].status = "occupied"
        /\ LeaseInsertFailed => units' = units
        /\ \A u \in DOMAIN units :
             BecomesOccupied(u) => (LeaseCreationEnds /\ post.unit_id = u)
      ]_vars

\* C15 as amended: a POST /api/leases whose lease insert and unit update the
\* store both accept sets the referenced unit to occupied and answers 200;
\* when the store rejects the unit update the handler throws, the lease stays
\* and the unit is unchanged; a failed lease insert leaves every unit as it
\* was; a unit otherwise becomes occupied only by PATCH /api/units/:id, and
\* table units changes in no step but these and POST /api/units: not in a
\* lease patch, a preview or a step of an autopay run.
C15_OccupiedOnLeaseOrUnitRoute ==
    [][ /\ LeaseCreationEnds =>
             /\ post'.pc = "done" =>
                  /\ units'[post.unit_id].status = "occupied"
                  /\ last'.op = "POST /api/leases" /\ last'.status = 200
             /\ post'.pc = "threw" => units' = units
             /\ post'.pc \in {"done", "threw"}
             /\ leases' = leases
             /\ leases[post.lease_id].unit_id = post.unit_id
        /\ LeaseInsertFailed => units' = units
        /\ \A u \in DOMAIN units :
             BecomesOccupied(u) =>
               \/ LeaseCreationEnds /\ post.unit_id = u
               \/ UnitRouteAnswers200 /\ last'.op = "PATCH /api/units"
        /\ units' # units => (LeaseCreationEnds \/ UnitRouteAnswers200)
      ]_vars

\* A lease that references unit 1 was created, the request was answered 200
\* and the unit, vacant before, is occupied.
C15_Witness ==
    /\ post.pc = "done"
    /\ post.status = 200
    /\ Len(leases) >= post.lease_id
    /\ leases[post.lease_id].unit_id = post.unit_id
    /\ units[post.unit_id].status = "occupied"
    /\ last.op = "POST /api/leases" /\ last.status = 200

\* ------------------------------------------------------------------ C16
\* The rows a step adds to table leases.
LeasesCreated == { i \in DOMAIN leases' : i \notin DOMAIN leases }

\* C16 as stated: a lease created through POST /api/leases is stored with
\* status active, billing anchor day 1 and next_due_date equal to
\* next_anchor(start_date), computed by the server from the start date.
C16_CreatedLeaseAnchored ==
    [][ \A i \in LeasesCreated :
          /\ leases'[i].status = "active"
          /\ leases'[i].billing_anchor_day = 1
          /\ leases'[i].next_due_date = next_anchor(leases'[i].start_date)
      ]_vars

\* ------------------------------------------------------------------ C17
\* The accepted updates of lease l, as positions of storeLog.
UpdatesOf(l) ==
    { i \in 1..Len(storeLog) :
        storeLog[i].op = "update lease" /\ storeLog[i].lease_id = l /\ storeLog[i].ok }
LastUpdateOf(l) == CHOOSE i \in UpdatesOf(l) : \A j \in UpdatesOf(l) : j <= i

\* C17: nothing guards overlapping runs.  An invocation can start whatever the
\* others are doing; an invocation at its charge step can charge, and one at
\* its update step can update, whether or not the lease is still due as it
\* was selected; and the update is last-write-wins: the lease carries the date
\* written by the last accepted update, the 1st of the month after the due
\* date that invocation had selected.
C17_OverlapNotGuarded ==
    /\ \A r \in Runs :
         /\ (pc[r] = "idle" /\ (IF r = 1 THEN TRUE ELSE Started(r - 1)))
              => ENABLED RunAnyTime(r)
         /\ pc[r] = "charge" => ENABLED Charge(r)
         /\ pc[r] = "advance" => ENABLED Advance(r)
    /\ \A l \in LeaseIds :
         UpdatesOf(l) # {} =>
           leases[l].next_due_date =
             next_anchor(SelRow(storeLog[LastUpdateOf(l)].run, l).next_due_date)

\* Two invocations for the same date both selected lease l, both charged it
\* successfully and both advanced it, no store call having been rejected: two
\* successful charges of one lease for one due date.
C17_Witness ==
    \E l \in LeaseIds : \E r1, r2 \in Runs :
      /\ r1 # r2
      /\ today[r1] = today[r2]
      /\ Completed(r1) /\ Completed(r2)
      /\ ChargeOk(r1, l) /\ ChargeOk(r2, l)
      /\ SelRow(r1, l).next_due_date = SelRow(r2, l).next_due_date
      /\ Accepted(r1, l, "update lease") /\ Accepted(r2, l, "update lease")
      /\ storeErrs = 0
      /\ leases[l].next_due_date = next_anchor(today[r1])

\* ------------------------------------------------------------------ C18
\* The step is the answer to a GET /api/leases/preview.
PreviewAnswered == last' # last /\ last'.op = "GET /api/leases/preview"

\* C18 as stated, for a server whose store client is configured, a lookup the
\* store fails counting as a unit that does not exist: the preview answers
\* 400 when unit_id or start_date is missing and 404 when the unit does not
\* exist; otherwise it returns amount_cents = prorate(start_date, unit rate),
\* next_due_date = next_anchor(start_date), monthly_cents = unit rate and
\* billing_anchor_day = 1; in every case it changes no stored state.
C18_PreviewAnswers ==
    [][ (PreviewAnswered /\ supabase) =>
          LET u == last'.unit_id
              sd == last'.start_date
          IN  /\ leases' = leases /\ units' = units /\ payments' = payments
              /\ (u = 0 \/ sd = NoDate) => resp'.status = 400
              /\ (u # 0 /\ sd # NoDate /\ u \notin DOMAIN units) => resp'.status = 404
              /\ (u # 0 /\ sd # NoDate /\ u \in DOMAIN units) =>
                   \/ resp'.status = 404
                   \/ resp' = [status |-> 200, error |-> NoText,
                               amount_cents |-> ProrateRef(sd, units[u].rate_cents),
                               next_due_date |-> next_anchor(sd),
                               monthly_cents |-> units[u].rate_cents,
                               billing_anchor_day |-> 1]
      ]_vars

\* ------------------------------------------------------------------ C19
Limited == "limit" \in fn.done
Clamp(n) == IF n < 1 THEN 1 ELSE IF n > 500 THEN 500 ELSE n

\* C19 as stated: the effective limit of GET /api/payments lies in [1, 500];
\* it is 100 when limit is absent or not a number, and otherwise the
\* requested n clamped to at least 1 and at most 500.
C19_LimitClamped ==
    Limited =>
      /\ fn.limit \in 1..500
      /\ fn.query.kind \in {"absent", "text"} => fn.limit = 100
      /\ fn.query.kind = "int" => fn.limit = Clamp(fn.query.n)

\* C19 as amended: the limit lies in [1, 500]; it is 100 when limit is
\* absent, not a number or 0, and otherwise the requested n clamped to at
\* least 1 and at most 500.
C19_LimitClampedZeroIsDefault ==
    Limited =>
      /\ fn.limit \in 1..500
      /\ fn.query.kind \in {"absent", "text"} => fn.limit = 100
      /\ (fn.query.kind = "int" /\ fn.query.n = 0) => fn.limit = 100
      /\ (fn.query.kind = "int" /\ fn.query.n # 0) => fn.limit = Clamp(fn.query.n)

\* limit=-5 was raised to 1.
C19_Witness ==
    /\ Limited
    /\ fn.query = [kind |-> "int", n |-> 0 - 5]
    /\ fn.limit = 1

\* ------------------------------------------------------------------ C20
\* The update of lease l by run r at position i of storeLog comes after an
\* insert of the paid row of the same attempt.
InsertBefore(r, l, i) == { j \in CallsBy(r, l, {"insert paid"}) : j < i }
PaidRowOf(r, l) ==
    { k \in RowsAddedFor(r, l) :
        /\ RowsAdded(r)[k].status = "paid"
        /\ RowsAdded(r)[k].square_payment_id = PaymentIdOf(r, l) }

\* C20 as stated: in every run and for every lease the update of
\* next_due_date is written only after the ledger entry of the same attempt
\* has been written, and no due date is advanced without that ledger entry
\* existing.
C20_AdvanceOnlyWithLedgerEntry ==
    \A r \in Runs : Latest(r) =>
      \A l \in SelIds(r) :
        /\ \A i \in CallsBy(r, l, {"update lease"}) :
             \E j \in InsertBefore(r, l, i) : storeLog[j].ok
        /\ Accepted(r, l, "update lease") => PaidRowOf(r, l) # {}

\* C20 as amended: in every run and for every lease the update of
\* next_due_date is issued only after the insert of the paid row of the same
\* attempt has been issued and has resolved; the row is in the ledger when the
\* store accepted that insert; when the store rejected it, the update is
\* issued all the same.
C20_UpdateIssuedAfterInsert ==
    \A r \in Runs : Latest(r) =>
      /\ pc[r] = "advance" =>
           /\ CallsBy(r, due[r][idx[r]].id, {"insert paid"}) # {}
           /\ CallsBy(r, due[r][idx[r]].id, {"update lease"}) = {}
      /\ \A l \in SelIds(r) :
           \A i \in CallsBy(r, l, {"update lease"}) :
             /\ InsertBefore(r, l, i) # {}
             /\ \A j \in InsertBefore(r, l, i) :
                  storeLog[j].ok => PaidRowOf(r, l) # {}

\* A lease was charged, its paid row was accepted by the store, and after
\* that its next_due_date was advanced.
C20_Witness ==
    \E r \in Runs : \E l \in LeaseIds :
      /\ Completed(r)
      /\ ChargeOk(r, l)
      /\ \E i \in CallsBy(r, l, {"update lease"}) :
           /\ storeLog[i].ok
           /\ \E j \in InsertBefore(r, l, i) : storeLog[j].ok
      /\ PaidRowOf(r, l) # {}
      /\ DueDateAfter(r, l) = next_anchor(SelRow(r, l).next_due_date)

\* ------------------------------------------------------------------ C21
\* The result of run r for the lease at position i of its selection reports a
\* plain success: ok, with no error.
PlainSuccess(r, i) == out[r].results[i].ok /\ out[r].results[i].error = NoText

\* C21 as stated: when the store rejected the insert of the paid row or the
\* update of next_due_date of a selected lease, the result of that lease in
\* the returned summary is not a plain success, and the run has a result for
\* every selected lease all the same.
C21_RejectedWriteMarked ==
    \A r \in Runs : JustCompleted(r) =>
      /\ Len(out[r].results) = Len(due[r])
      /\ \A i \in SelIdx(r) :
           (\/ Rejected(r, due[r][i].id, "insert paid")
            \/ Rejected(r, due[r][i].id, "update lease"))
             => ~PlainSuccess(r, i)

\* ------------------------------------------------------------------ C22
\* C22: the summary a run returns carries the run's as-of date; its count is
\* the length of its results and the number of leases selected; its results
\* are one per selected lease, in the order of the selection, and no lease
\* appears in them twice.
C22_AggregateConsistent ==
    \A r \in Runs : Completed(r) =>
      /\ out[r].date = today[r]
      /\ out[r].count = Len(out[r].results)
      /\ out[r].count = Len(due[r])
      /\ \A i \in SelIdx(r) : out[r].results[i].lease_id = due[r][i].id
      /\ \A i, j \in 1..Len(out[r].results) :
           out[r].results[i].lease_id = out[r].results[j].lease_id => i = j

\* A run has returned a summary of two leases, the first failed and the
\* second charged.
C22_Witness ==
    \E r \in Runs :
      /\ Completed(r)
      /\ out[r].count = 2
      /\ Len(due[r]) = 2
      /\ out[r].results[1].lease_id = due[r][1].id /\ ~out[r].results[1].ok
      /\ out[r].results[2].lease_id = due[r][2].id /\ out[r].results[2].ok

\* ------------------------------------------------------------------ C23
\* Run r is through with lease l: one gateway call, one insert into the
\* ledger and, when the charge went through, one update of the lease have
\* resolved.
Finished(r, l) ==
    /\ Cardinality(ChargesBy(r, l)) = 1
    /\ Cardinality(CallsBy(r, l, Inserts)) = 1
    /\ Cardinality(CallsBy(r, l, {"update lease"})) = IF ChargeOk(r, l) THEN 1 ELSE 0

\* Run r has not begun lease l: no gateway call and no write for it.
NotBegun(r, l) ==
    /\ ChargesBy(r, l) = {}
    /\ CallsBy(r, l, Inserts \cup {"update lease"}) = {}

\* C23: in every state of a run the leases before the position of the loop
\* are finished (gateway call, ledger write, update of the due date), the
\* leases after it are untouched, and the lease at the position is untouched
\* when its gateway call is about to start; so the steps of two leases of one
\* run never interleave.
C23_OneLeaseAtATime ==
    \A r \in Runs : Latest(r) =>
      \A i \in SelIdx(r) :
        LET l == due[r][i].id IN
        /\ i < idx[r] => Finished(r, l)
        /\ i > idx[r] => NotBegun(r, l)
        /\ (i = idx[r] /\ pc[r] = "charge") => NotBegun(r, l)
        /\ (i = idx[r] /\ pc[r] = "done") => Finished(r, l)

\* The gateway call of the second lease is about to start; the first lease
\* was charged, recorded and advanced.
C23_Witness ==
    \E r \in Runs :
      /\ pc[r] = "charge"
      /\ idx[r] = 2
      /\ ChargeOk(r, due[r][1].id)
      /\ Finished(r, due[r][1].id)
      /\ NotBegun(r, due[r][2].id)

\* ------------------------------------------------------------------ C24
\* C24: any two charge requests the gateway has received from the runner
\* carry different idempotency keys, whatever their leases and their runs,
\* and the amount of every request is the rent of the lease as the run
\* selected it.
C24_FreshKeyAndRentAmount ==
    /\ \A i, j \in 1..Len(charges) :
         charges[i].idempotencyKey = charges[j].idempotencyKey => i = j
    /\ \A i \in 1..Len(charges) :
         \E k \in SelIdx(charges[i].run) :
           /\ due[charges[i].run][k].id = charges[i].lease_id
           /\ charges[i].amount = due[charges[i].run][k].rent_cents
           /\ charges[i].amount = leases0[charges[i].run][charges[i].lease_id].rent_cents

\* The same lease was charged by two runs, and two leases by one run; the
\* keys of the requests differ.
C24_Witness ==
    \E i, j, k \in 1..Len(charges) :
      /\ charges[i].lease_id = charges[j].lease_id
      /\ charges[i].run # charges[j].run
      /\ charges[i].idempotencyKey # charges[j].idempotencyKey
      /\ charges[k].run = charges[i].run
      /\ charges[k].lease_id # charges[i].lease_id
      /\ charges[k].idempotencyKey # charges[i].idempotencyKey
      /\ charges[k].amount # charges[i].amount

\* ------------------------------------------------------------------ C25
\* C25: the ledger is append-only.  Every step of the runner and of the
\* routes leaves each row of table payments where it was and as it was,
\* lease, amount, status, transaction id and note; a step may only add rows
\* at the end.
C25_LedgerAppendOnly ==
    [][/\ Len(payments') >= Len(payments)
       /\ \A i \in 1..Len(payments) : payments'[i] = payments[i]]_vars

\* The ledger holds the paid row of a charge, and a refund of a payment has
\* since gone through.
C25_Witness ==
    \E i \in 1..Len(payments) :
      /\ payments[i].status = "paid"
      /\ payments[i].square_payment_id # NoId
      /\ last.op = "POST /api/payments/refund"
      /\ last.status = 200

\* ------------------------------------------------------------------ C26
\* C26 as stated: the amount prorateCents returned for a start date and a
\* monthly amount is the amount it returns in every time zone the process may
\* run in, and the day and the month it read off the start date are those of
\* the date as nextFirst reads it, at UTC midnight.
C26_ProrateZoneIndependent ==
    "prorateCents" \in fn.done =>
      /\ \A off \in TzOffsets : fn.prorated = prorateCents(off, fn.date, fn.cents)
      /\ ParseLocalMidnight(fn.date, tz).d = fn.date.d
      /\ ParseLocalMidnight(fn.date, tz).m = fn.date.m

\* ------------------------------------------------------------------ C27
\* C27: the ledger and the results tell what the gateway answered.  A row
\* with status paid was added by a run only for a lease whose charge by that
\* run went through, and carries that charge's payment id and amount; a row
\* with status failed, and a result that is not ok, only for a lease whose
\* charge did not go through; a lease charged successfully gets no insert of
\* a failed row and no result that is not ok.
C27_StatusFollowsGateway ==
    \A r \in Runs : Latest(r) =>
      /\ \A k \in 1..Len(RowsAdded(r)) :
           LET row == RowsAdded(r)[k]
               l == row.lease_id
           IN  /\ row.status \in {"paid", "failed"}
               /\ row.status = "paid" =>
                    /\ ~ChargeFailed(r, l)
                    /\ \E c \in ChargesBy(r, l) :
                         /\ charges[c].ok
                         /\ charges[c].payment_id = row.square_payment_id
                         /\ charges[c].amount = row.amount_cents
               /\ row.status = "failed" => ChargeFailed(r, l) /\ ~ChargeOk(r, l)
      /\ \A i \in 1..Len(results[r]) :
           IF results[r][i].ok
           THEN ChargeOk(r, results[r][i].lease_id)
           ELSE /\ ChargeFailed(r, results[r][i].lease_id)
                /\ ~ChargeOk(r, results[r][i].lease_id)
      /\ \A l \in SelIds(r) :
           ChargeOk(r, l) => CallsBy(r, l, {"insert failed"}) = {}

\* One run recorded a declined charge as failed and a charge that went
\* through as paid.
C27_Witness ==
    \E r \in Runs : \E j, k \in 1..Len(RowsAdded(r)) :
      /\ Completed(r)
      /\ RowsAdded(r)[j].status = "failed"
      /\ ChargeFailed(r, RowsAdded(r)[j].lease_id)
      /\ RowsAdded(r)[k].status = "paid"
      /\ ChargeOk(r, RowsAdded(r)[k].lease_id)
      /\ FailedIds(r) = {RowsAdded(r)[j].lease_id}
      /\ OkIds(r) = {RowsAdded(r)[k].lease_id}

\* ------------------------------------------------------------------ C28
\* The store calls the runner issues: the selection on leases, the two
\* inserts into payments and the update of leases.
RunnerOps == {"select", "insert paid", "insert failed", "update lease"}

\* A step of the runner: some invocation moves.
RunnerStep == pc' # pc

\* C28: a step of the runner leaves table units as it is and adds or removes
\* no lease; a lease row it changes is the row of the lease the invocation
\* selected and has just charged successfully, and differs from what it was in
\* next_due_date only (autopay, card, rent, status, start date, unit and
\* tenant are as before); the runner issues no store call other than its
\* selection, its inserts into payments and that update.
C28_RunFrame ==
    [][RunnerStep =>
        /\ units' = units
        /\ Len(leases') = Len(leases)
        /\ \A l \in 1..Len(leases) :
             leases'[l] # leases[l] =>
               /\ \E r \in Runs :
                    /\ pc[r] = "advance"
                    /\ l = due[r][idx[r]].id
                    /\ ChargeOk(r, l)
               /\ leases'[l] = [leases[l] EXCEPT !.next_due_date = leases'[l].next_due_date]
        /\ \A i \in 1..Len(storeLog') : storeLog'[i].op \in RunnerOps]_vars

\* A run has charged and advanced the lease of an occupied unit; the lease
\* still has autopay on and its card, and the unit is still occupied.
C28_Witness ==
    \E r \in Runs : \E l \in 1..Len(leases) :
      /\ Completed(r)
      /\ ChargeOk(r, l)
      /\ Accepted(r, l, "update lease")
      /\ leases[l].next_due_date = nextMonthFirst(today[r])
      /\ leases[l].autopay = TRUE
      /\ leases[l].square_card_id # NoCard
      /\ Len(units) >= leases[l].unit_id
      /\ units[leases[l].unit_id].status = "occupied"

\* ------------------------------------------------------------------ C29
\* C29: for every calendar date and every monthly amount M >= 0, in whatever
\* time zone the process runs, prorateCents returns a whole number of cents
\* that is at least 0 and at most M.
C29_ProrateWithinMonthly ==
    "prorateCents" \in fn.done =>
      /\ fn.prorated \in Nat
      /\ fn.prorated <= fn.cents

\* A start in the middle of a month was charged a part of the monthly amount,
\* more than nothing and less than the whole.
C29_Witness ==
    /\ "prorateCents" \in fn.done
    /\ fn.date.d > 2
    /\ fn.cents = 10000
    /\ fn.prorated > 0
    /\ fn.prorated < fn.cents

====
